---- MODULE Spec2Model ----
(***************************************************************************)
(* Audio pattern discovery: banded dynamic time warping (alignments.rs),   *)
(* the parallel alignment scheduler (AlignmentWorkers::align_all), the     *)
(* caller that turns the alignment buffer into a distance matrix           *)
(* (main.rs, learn), agglomerative clustering with its replay              *)
(* (clustering.rs) and the state merging that builds one automaton per     *)
(* cluster (aligned_model_merging.rs, hidden_markov_model.rs).  Each       *)
(* component has its own specification; the variables of the others keep   *)
(* their idle values.                                                      *)
(*                                                                         *)
(* Numbers.  f32 values are modelled by integers (all frames are           *)
(* one-dimensional integers, so every sum and product is exact);           *)
(* std::f32::INFINITY is the sentinel INFINITY, with the arithmetic of     *)
(* IEEE infinity spelled out in f32_add.  A quotient is kept as the pair   *)
(* <<numerator, denominator>> and compared by f32_eq.                      *)
(***************************************************************************)
EXTENDS Integers, Sequences, FiniteSets, TLC

VARIABLES
    \* ---- one Alignment object and its two inputs (alignments.rs) ----
    x,          \* NDSequence x, a sequence of 1-dimensional frames
    y,          \* NDSequence y
    params,     \* AlignmentParams
    alignment,  \* Alignment {n, m, sparse}
    score_out,  \* what score() returned on the alignment as it is now
    path_out,   \* what path() returned on the alignment as it is now
    \* ---- AlignmentWorkers and the caller (alignments.rs, main.rs) ----
    data,       \* AlignmentWorkers.data
    discover,   \* Discovery (the fields align_all reads)
    result,     \* AlignmentWorkers.result, the flat n*n buffer
    main_pc,    \* position of the calling thread
    batch,      \* loop counter of the spawn loop, then of the join loop
    children,   \* per batch: the worker thread's state and loop position
    writes,     \* history: per buffer index, the batches that wrote it
    distances,  \* learn: the distance matrix handed to clustering
    \* ---- clustering() and cluster_sets() (clustering.rs) ----
    dendogram,      \* AgglomerativeClustering {distances, n_instances,
                    \* n_clusters, parents}
    perc,           \* the percentile argument, in percent
    threshold,      \* clustering's local `threshold`
    loop_distance,  \* clustering's local `distance`
    cluster_result, \* clustering's local `cluster_result`
    cluster_pc,     \* position inside clustering / cluster_sets
    before_merge,   \* history: the dendogram as it was before each merge
    clusters_out,   \* the cluster ids clustering returned
    grouped,        \* what cluster_sets returned
    \* ---- ModelMerging (aligned_model_merging.rs) ----
    slices,         \* the member sequences handed to from_slices
    operations,     \* merge_all's local `operations`, as pairs of states
    merger,         \* ModelMerging {hmm, merge_parent}
    closed,         \* merge_all's local `closed`
    op_index,       \* merge_all's position in `operations`
    merge_pc,       \* position of the caller of merge_all and shrink
    compacted,      \* what shrink returned
    \* ---- merges_from_alignment (aligned_model_merging.rs) ----
    internal_perc,  \* the argument perc, in percent
    merge_th,       \* the argument th
    moving,         \* the argument k
    merges_out,     \* what merges_from_alignment returned
    \* ---- percentile (numerics.rs) ----
    numbers_in,     \* the slice handed to percentile
    numbers_perc,   \* the argument perc, in percent
    percentile_out, \* what percentile returned
    \* ---- viterbi (hidden_markov_model.rs) ----
    hmm,            \* HiddenMarkovModel {n_states, start, stop, trans, means}
    signal,         \* the observation sequence
    viterbi_out     \* what viterbi returned

aligner_vars == <<x, y, params, alignment, score_out, path_out>>
worker_vars == <<data, discover, result, main_pc, batch, children, writes,
                 distances>>
cluster_vars == <<dendogram, perc, threshold, loop_distance,
                  cluster_result, cluster_pc, before_merge, clusters_out, grouped>>
merging_vars == <<slices, operations, merger, closed, op_index, merge_pc,
                  compacted>>
candidate_vars == <<internal_perc, merge_th, moving, merges_out>>
percentile_vars == <<numbers_in, numbers_perc, percentile_out>>
viterbi_vars == <<hmm, signal, viterbi_out>>
vars == <<aligner_vars, worker_vars, cluster_vars, merging_vars,
          candidate_vars, percentile_vars, viterbi_vars>>

\* A component that is not running: its variables keep these values
ClusterIdle ==
    /\ dendogram = [distances |-> <<>>, n_instances |-> 0, n_clusters |-> 0,
                    parents |-> <<>>]
    /\ perc = 0
    /\ threshold = <<0, 1>>
    /\ loop_distance = <<0, 1>>
    /\ cluster_result = <<>>
    /\ cluster_pc = "idle"
    /\ before_merge = <<>>
    /\ clusters_out = {}
    /\ grouped = <<>>

MergingIdle ==
    /\ slices = <<>>
    /\ operations = <<>>
    /\ merger = [hmm |-> [n_states |-> 0, dim |-> 1, start |-> <<>>,
                          stop |-> <<>>, trans |-> <<>>, states |-> <<>>,
                          is_segmental |-> <<>>],
                 merge_parent |-> <<>>]
    /\ closed = {}
    /\ op_index = 0
    /\ merge_pc = "idle"
    /\ compacted = [n_states |-> 0, dim |-> 1, start |-> <<>>, stop |-> <<>>,
                    trans |-> <<>>, states |-> <<>>, is_segmental |-> <<>>]

CandidatesIdle ==
    /\ internal_perc = 0
    /\ merge_th = <<0, 1>>
    /\ moving = 0
    /\ merges_out = [status |-> "none", ops |-> <<>>]

PercentileIdle ==
    /\ numbers_in = <<>>
    /\ numbers_perc = 0
    /\ percentile_out = [status |-> "none", value |-> <<0, 1>>]

ViterbiIdle ==
    /\ hmm = [n_states |-> 0, start |-> <<>>, stop |-> <<>>, trans |-> <<>>,
              means |-> <<>>]
    /\ signal = <<>>
    /\ viterbi_out = [status |-> "none", value |-> <<0, 1>>]

----------------------------------------------------------------------------
(* Bounds of the model *)

MaxLen == 4

FrameValues == {0, 1}
PenaltySets == {<<1, 1, 1>>, <<2, 1, 1>>, <<1, 2, 1>>, <<1, 1, 2>>}
BandValues == 0 .. MaxLen

RECURSIVE SeqsUpTo(_)
SeqsUpTo(k) ==
    IF k = 0 THEN {<<>>}
    ELSE LET shorter == SeqsUpTo(k - 1)
         IN  shorter \cup {Append(s, v) : s \in {t \in shorter : Len(t) = k - 1},
                                          v \in FrameValues}

NDSequences == SeqsUpTo(MaxLen)

\* The scheduler's corpus: at most MaxCorpus sequences, at most MaxWorkers threads
MaxCorpus == 3
MaxWorkers == 2

CorpusSequences == {<<>>, <<0>>, <<1, 0>>}
PercentValues == {10, 100}

RECURSIVE CorporaUpTo(_)
CorporaUpTo(k) ==
    IF k = 0 THEN {<<>>}
    ELSE LET smaller == CorporaUpTo(k - 1)
         IN  smaller \cup {Append(c, s) : c \in {d \in smaller : Len(d) = k - 1},
                                           s \in CorpusSequences}

----------------------------------------------------------------------------
(* f32 and usize arithmetic *)

INFINITY == 1000000

f32_add(a, b) == IF a = INFINITY \/ b = INFINITY THEN INFINITY ELSE a + b

\* a / b for b > 0, kept as an unreduced fraction; INFINITY / b = INFINITY
f32_div(a, b) == IF a = INFINITY THEN <<INFINITY, 1>> ELSE <<a, b>>

f32_eq(p, q) ==
    IF p[1] = INFINITY \/ q[1] = INFINITY
    THEN p[1] = q[1]
    ELSE p[1] * q[2] = q[1] * p[2]

\* usize subtraction in a build without overflow checks wraps; the modulus
\* stands for 2^64 (any modulus above the table's coordinates gives the same
\* table lookups).
usize_wrapping_sub(a, b) == (a - b) % (2 ^ 30)

max(a, b) == IF a > b THEN a ELSE b

min(a, b) == IF a < b THEN a ELSE b

abs(n, m) == IF n > m THEN n - m ELSE m - n

diff(n, m) == IF n > m THEN n - m ELSE 0

\* NDSequence::vec with n_bins = 1: the frame at (0-based) time t
vec(s, t) == s[t + 1]

\* sqrt((a - b)^2) of two 1-dimensional frames
euclidean(a, b) == abs(a, b)

----------------------------------------------------------------------------
(* AlignmentNode *)

AlignmentNode(prev_i, prev_j, label, score, score_on_path) ==
    [prev_i |-> prev_i, prev_j |-> prev_j, label |-> label, score |-> score,
     score_on_path |-> score_on_path]

start_node == AlignmentNode(0, 0, "Match", 0, 0)

cur(node) ==
    CASE node.label = "Match" -> <<node.prev_i + 1, node.prev_j + 1>>
      [] node.label = "Insertion" -> <<node.prev_i + 1, node.prev_j>>
      [] node.label = "Deletion" -> <<node.prev_i, node.prev_j + 1>>

is_start(node) ==
    node.prev_i = 0 /\ node.prev_j = 0 /\ node.score_on_path = 0

----------------------------------------------------------------------------
(* Alignment *)

Alignment_new == [n |-> 0, m |-> 0, sparse |-> (<<0, 0>> :> start_node)]

\* sparse.get(&(i, j)) mapped to the predecessor's path score, INFINITY if absent
score_on_path_at(sparse, i, j) ==
    IF <<i, j>> \in DOMAIN sparse THEN sparse[<<i, j>>].score_on_path
    ELSE INFINITY

\* select_label with the deletion branch taken on ties (<= for <)
select_label_ties_to_deletion(delete_score, insert_score, match_score) ==
    IF delete_score <= match_score /\ delete_score <= insert_score
    THEN "Deletion"
    ELSE IF insert_score < match_score /\ insert_score < delete_score
    THEN "Insertion"
    ELSE "Match"

\* select_label with the comparisons turned round (> for <)
select_label_greater(delete_score, insert_score, match_score) ==
    IF delete_score > match_score /\ delete_score > insert_score
    THEN "Deletion"
    ELSE IF insert_score > match_score /\ insert_score > delete_score
    THEN "Insertion"
    ELSE "Match"

\* The branch alignment_score takes, from the three predecessor scores
select_label(delete_score, insert_score, match_score) ==
    IF delete_score < match_score /\ delete_score < insert_score
    THEN "Deletion"
    ELSE IF insert_score < match_score /\ insert_score < delete_score
    THEN "Insertion"
    ELSE "Match"

alignment_score(sparse, i, j, sx, sy, p) ==
    LET distance == euclidean(vec(sx, i - 1), vec(sy, j - 1))
        match_score == score_on_path_at(sparse, i - 1, j - 1)
        insert_score == score_on_path_at(sparse, i - 1, j)
        delete_score == score_on_path_at(sparse, i, j - 1)
        label == select_label(delete_score, insert_score, match_score)
    IN  CASE label = "Deletion" ->
               AlignmentNode(i, j - 1, "Deletion", distance,
                   f32_add(delete_score, p.deletion_penalty * distance))
          [] label = "Insertion" ->
               AlignmentNode(i - 1, j, "Insertion", distance,
                   f32_add(insert_score, p.insertion_penalty * distance))
          [] label = "Match" ->
               AlignmentNode(i - 1, j - 1, "Match", distance,
                   f32_add(match_score, p.match_penalty * distance))

\* The column range of row i: max(diff(i, w), 1) .. min(i + w, m + 1) - 1
band_lo(i, w) == max(diff(i, w), 1)

band_hi(i, w, m) == min(i + w, m + 1)

RECURSIVE fill_row(_, _, _, _, _, _, _)
fill_row(sparse, i, j, hi, sx, sy, p) ==
    IF j >= hi THEN sparse
    ELSE fill_row((<<i, j>> :> alignment_score(sparse, i, j, sx, sy, p)) @@ sparse,
                  i, j + 1, hi, sx, sy, p)

RECURSIVE fill_rows(_, _, _, _, _, _, _, _)
fill_rows(sparse, i, n, m, w, sx, sy, p) ==
    IF i >= n + 1 THEN sparse
    ELSE fill_rows(fill_row(sparse, i, band_lo(i, w), band_hi(i, w, m), sx, sy, p),
                   i + 1, n, m, w, sx, sy, p)

construct_alignment(self, sx, sy, p) ==
    LET n == Len(sx)
        m == Len(sy)
        w == max(p.warping_band, abs(n, m)) + 2
    IN  [n |-> n, m |-> m,
         sparse |-> fill_rows(self.sparse, 1, n, m, w, sx, sy, p)]

\* Alignment::score.  self.n - 1 and self.m - 1 are usize subtractions: with
\* overflow checks (a debug build) 0 - 1 panics, without them it wraps; both
\* outcomes are returned when the subtraction overflows.
Alignment_score(self) ==
    IF self.m = 0 /\ self.n = 0
    THEN {[status |-> "ok", value |-> <<INFINITY, 1>>]}
    ELSE LET key == <<usize_wrapping_sub(self.n, 1), usize_wrapping_sub(self.m, 1)>>
             wrapped ==
                 IF key \in DOMAIN self.sparse
                 THEN [status |-> "ok",
                       value |-> f32_div(self.sparse[key].score_on_path,
                                         self.n + self.m)]
                 ELSE [status |-> "ok", value |-> <<INFINITY, 1>>]
         IN  IF self.n = 0 \/ self.m = 0
             THEN {[status |-> "panic", value |-> <<0, 1>>], wrapped}
             ELSE {wrapped}

RECURSIVE reverse(_)
reverse(s) == IF s = <<>> THEN <<>> ELSE Append(reverse(Tail(s)), Head(s))

\* The while loop of Alignment::path: push the node, step to its predecessor;
\* indexing sparse with an absent key panics.
RECURSIVE backtrack(_, _, _)
backtrack(sparse, node, path) ==
    IF is_start(node) THEN [status |-> "ok", nodes |-> reverse(path)]
    ELSE IF <<node.prev_i, node.prev_j>> \notin DOMAIN sparse
    THEN [status |-> "panic", nodes |-> <<>>]
    ELSE backtrack(sparse, sparse[<<node.prev_i, node.prev_j>>],
                   Append(path, node))

Alignment_path(self) ==
    IF self.n > 0 /\ self.m > 0
    THEN IF <<self.n, self.m>> \in DOMAIN self.sparse
         THEN backtrack(self.sparse, self.sparse[<<self.n, self.m>>], <<>>)
         ELSE [status |-> "ok", nodes |-> <<>>]
    ELSE [status |-> "ok", nodes |-> <<>>]

----------------------------------------------------------------------------
(* The aligner on its own: one Alignment, constructed once, queried freely *)

NotCalled == [status |-> "none", value |-> <<0, 1>>]
NoPath == [status |-> "none", nodes |-> <<>>]

AlignmentParams(band, pen) ==
    [warping_band |-> band, insertion_penalty |-> pen[1],
     deletion_penalty |-> pen[2], match_penalty |-> pen[3]]

AlignerIdle ==
    /\ x = <<>>
    /\ y = <<>>
    /\ params = AlignmentParams(0, <<1, 1, 1>>)
    /\ alignment = Alignment_new
    /\ score_out = NotCalled
    /\ path_out = NoPath

WorkersIdle ==
    /\ data = <<>>
    /\ discover = [alignment_workers |-> 1, warping_band_percentage |-> 0,
                   penalties |-> <<1, 1, 1>>]
    /\ result = <<>>
    /\ main_pc = "idle"
    /\ batch = 0
    /\ children = <<>>
    /\ writes = <<>>
    /\ distances = <<>>

InitAlign ==
    /\ x \in NDSequences
    /\ y \in NDSequences
    /\ params \in {AlignmentParams(b, pen) : b \in BandValues, pen \in PenaltySets}
    /\ alignment = Alignment_new
    /\ score_out = NotCalled
    /\ path_out = NoPath
    /\ WorkersIdle
    /\ ClusterIdle
    /\ MergingIdle
    /\ CandidatesIdle
    /\ PercentileIdle
    /\ ViterbiIdle

ConstructAlignment ==
    /\ alignment = Alignment_new
    /\ alignment' = construct_alignment(alignment, x, y, params)
    /\ score_out' = NotCalled
    /\ path_out' = NoPath
    /\ UNCHANGED <<x, y, params>>
    /\ UNCHANGED <<worker_vars, cluster_vars, merging_vars>>
    /\ UNCHANGED <<candidate_vars, percentile_vars, viterbi_vars>>

Score ==
    /\ \E out \in Alignment_score(alignment) : score_out' = out
    /\ UNCHANGED <<x, y, params, alignment, path_out>>
    /\ UNCHANGED <<worker_vars, cluster_vars, merging_vars>>
    /\ UNCHANGED <<candidate_vars, percentile_vars, viterbi_vars>>

Path ==
    /\ path_out' = Alignment_path(alignment)
    /\ UNCHANGED <<x, y, params, alignment, score_out>>
    /\ UNCHANGED <<worker_vars, cluster_vars, merging_vars>>
    /\ UNCHANGED <<candidate_vars, percentile_vars, viterbi_vars>>

NextAlign == ConstructAlignment \/ Score \/ Path

SpecAlign == InitAlign /\ [][NextAlign]_vars

----------------------------------------------------------------------------
(* Discovery::alignment_params, AlignmentWorkers, learn *)

\* warping_band_percentage is kept in percent; (pct * n_size) as usize truncates
alignment_params(d, n_size) ==
    [warping_band |-> (d.warping_band_percentage * n_size) \div 100,
     insertion_penalty |-> d.penalties[1],
     deletion_penalty |-> d.penalties[2],
     match_penalty |-> d.penalties[3]]

\* data[i] for a 0-based i
seq_at(d, i) == d[i + 1]

\* AlignmentWorkers::new: n * n fresh alignments, indexed from 0
AlignmentWorkers_new(d) ==
    [k \in 0 .. Len(d) * Len(d) - 1 |-> Alignment_new]

\* batch_size without the extra row per batch
batch_size_rounded_down(n, workers) == n \div workers

batch_size(n, workers) == (n \div workers) + 1

batch_start(b, n, workers) == b * batch_size(n, workers)

batch_stop(b, n, workers) == min((b + 1) * batch_size(n, workers), n)

cell_index(i, j, n) == i * n + j

\* the alignment a worker builds for the ordered pair (i, j)
pair_alignment(d, disc, i, j) ==
    LET len == max(Len(seq_at(d, i)), Len(seq_at(d, j)))
    IN  construct_alignment(Alignment_new, seq_at(d, i), seq_at(d, j),
                            alignment_params(disc, len))

\* a join that does not wait for the thread
joinable_at_once(child) == child.state \in {"running", "finished", "panicked"}

\* child.join() returns once the thread has ended, normally or by a panic
joinable(child) == child.state \in {"finished", "panicked"}

InitWorkers ==
    /\ data \in CorporaUpTo(MaxCorpus)
    /\ discover \in {[alignment_workers |-> w, warping_band_percentage |-> pct,
                      penalties |-> <<1, 1, 1>>] :
                        w \in 1 .. MaxWorkers, pct \in PercentValues}
    /\ result = AlignmentWorkers_new(data)
    /\ main_pc = "spawn"
    /\ batch = 0
    /\ children = <<>>
    /\ writes = [k \in 0 .. Len(data) * Len(data) - 1 |-> <<>>]
    /\ distances = <<>>
    /\ AlignerIdle
    /\ ClusterIdle
    /\ MergingIdle
    /\ CandidatesIdle
    /\ PercentileIdle
    /\ ViterbiIdle

\* One turn of the spawn loop: the thread of this batch starts at row `start`
Spawn ==
    /\ main_pc = "spawn"
    /\ batch < discover.alignment_workers
    /\ children' = Append(children,
           [state |-> "running",
            i |-> batch_start(batch, Len(data), discover.alignment_workers),
            j |-> 0])
    /\ IF batch + 1 = discover.alignment_workers
       THEN main_pc' = "join" /\ batch' = 0
       ELSE main_pc' = "spawn" /\ batch' = batch + 1
    /\ UNCHANGED <<data, discover, result, writes, distances>>
    /\ UNCHANGED <<aligner_vars, cluster_vars, merging_vars>>
    /\ UNCHANGED <<candidate_vars, percentile_vars, viterbi_vars>>

\* One turn of a worker's inner loop: for i # j build the alignment, take the
\* lock, store it at i * n + j and release the lock
WorkerAlign(b) ==
    LET n == Len(data)
        c == children[b + 1]
        next == IF c.j + 1 = n THEN [c EXCEPT !.i = c.i + 1, !.j = 0]
                ELSE [c EXCEPT !.j = c.j + 1]
    IN  /\ b < Len(children)
        /\ c.state = "running"
        /\ c.i < batch_stop(b, n, discover.alignment_workers)
        /\ IF c.i # c.j
           THEN /\ result' = [result EXCEPT ![cell_index(c.i, c.j, n)] =
                                  pair_alignment(data, discover, c.i, c.j)]
                /\ writes' = [writes EXCEPT ![cell_index(c.i, c.j, n)] =
                                  Append(@, b)]
           ELSE UNCHANGED <<result, writes>>
        /\ children' = [children EXCEPT ![b + 1] = next]
        /\ UNCHANGED <<data, discover, main_pc, batch, distances>>
        /\ UNCHANGED <<aligner_vars, cluster_vars, merging_vars>>
        /\ UNCHANGED <<candidate_vars, percentile_vars, viterbi_vars>>

\* The outer loop is exhausted: the closure returns
WorkerExit(b) ==
    /\ b < Len(children)
    /\ children[b + 1].state = "running"
    /\ children[b + 1].i >= batch_stop(b, Len(data), discover.alignment_workers)
    /\ children' = [children EXCEPT ![b + 1].state = "finished"]
    /\ UNCHANGED <<data, discover, result, main_pc, batch, writes, distances>>
    /\ UNCHANGED <<aligner_vars, cluster_vars, merging_vars>>
    /\ UNCHANGED <<candidate_vars, percentile_vars, viterbi_vars>>

\* A worker panics outside the lock: println! at the head of a row (stdout
\* cannot be written) or inside construct_alignment; the mutex is not
\* poisoned
WorkerPanic(b) ==
    /\ b < Len(children)
    /\ children[b + 1].state = "running"
    /\ children[b + 1].i < batch_stop(b, Len(data), discover.alignment_workers)
    /\ children[b + 1].j = 0 \/ children[b + 1].i # children[b + 1].j
    /\ children' = [children EXCEPT ![b + 1].state = "panicked"]
    /\ UNCHANGED <<data, discover, result, main_pc, batch, writes, distances>>
    /\ UNCHANGED <<aligner_vars, cluster_vars, merging_vars>>
    /\ UNCHANGED <<candidate_vars, percentile_vars, viterbi_vars>>

\* One turn of the join loop: `let _ = child.join()` drops the Result
Join ==
    /\ main_pc = "join"
    /\ joinable(children[batch + 1])
    /\ IF batch + 1 = Len(children)
       THEN main_pc' = "returned" /\ batch' = 0
       ELSE main_pc' = "join" /\ batch' = batch + 1
    /\ UNCHANGED <<data, discover, result, children, writes, distances>>
    /\ UNCHANGED <<aligner_vars, cluster_vars, merging_vars>>
    /\ UNCHANGED <<candidate_vars, percentile_vars, viterbi_vars>>

\* learn: result.lock().unwrap(), then score() of every buffer entry; here
\* every call returns (no overflow check fails)
LearnDistances ==
    /\ main_pc = "returned"
    /\ distances' = [k \in DOMAIN result |->
                        (CHOOSE o \in Alignment_score(result[k]) :
                             o.status = "ok").value]
    /\ main_pc' = "clustering"
    /\ UNCHANGED <<data, discover, result, batch, children, writes>>
    /\ UNCHANGED <<aligner_vars, cluster_vars, merging_vars>>
    /\ UNCHANGED <<candidate_vars, percentile_vars, viterbi_vars>>

\* learn in a build with overflow checks: score() of an entry with n = 0 or
\* m = 0 (not both) panics
LearnPanics ==
    /\ main_pc = "returned"
    /\ \E k \in DOMAIN result :
           \E o \in Alignment_score(result[k]) : o.status = "panic"
    /\ main_pc' = "panicked"
    /\ UNCHANGED <<data, discover, result, batch, children, writes, distances>>
    /\ UNCHANGED <<aligner_vars, cluster_vars, merging_vars>>
    /\ UNCHANGED <<candidate_vars, percentile_vars, viterbi_vars>>

Batches == 0 .. MaxWorkers - 1

NextWorkers ==
    \/ Spawn
    \/ \E b \in Batches : WorkerAlign(b)
    \/ \E b \in Batches : WorkerExit(b)
    \/ \E b \in Batches : WorkerPanic(b)
    \/ Join
    \/ LearnDistances
    \/ LearnPanics

SpecWorkers == InitWorkers /\ [][NextWorkers]_vars

----------------------------------------------------------------------------
(* Properties of the aligner *)

Constructed == alignment.n = Len(x) /\ alignment.m = Len(y)

Inf == <<INFINITY, 1>>

min3(a, b, c) == min(a, min(b, c))

\* C1: every computed cell (i,j), i,j >= 1, stores the minimum of the three
\* candidates cost(i,j-1) + deletion_penalty*local, cost(i-1,j) +
\* insertion_penalty*local and cost(i-1,j-1) + match_penalty*local, an absent
\* predecessor counting as +infinity.
C1_CellCostIsMinimumOfCandidates ==
    Constructed =>
        \A k \in DOMAIN alignment.sparse \ {<<0, 0>>} :
            LET i == k[1]
                j == k[2]
                local == euclidean(vec(x, i - 1), vec(y, j - 1))
                s == alignment.sparse
            IN  s[k].score_on_path =
                    min3(f32_add(score_on_path_at(s, i, j - 1),
                                 params.deletion_penalty * local),
                         f32_add(score_on_path_at(s, i - 1, j),
                                 params.insertion_penalty * local),
                         f32_add(score_on_path_at(s, i - 1, j - 1),
                                 params.match_penalty * local))

\* C2: for n,m >= 1, score() returns the cumulative cost stored at (n,m)
\* divided by n+m, and infinity exactly when the cell (n,m) is absent.
C2_ScoreIsTerminalCostOverLength ==
    (Constructed /\ alignment.n >= 1 /\ alignment.m >= 1
        /\ score_out.status # "none") =>
        /\ score_out.status = "ok"
        /\ IF <<alignment.n, alignment.m>> \in DOMAIN alignment.sparse
           THEN /\ score_out.value # Inf
                /\ f32_eq(score_out.value,
                       f32_div(alignment.sparse[<<alignment.n, alignment.m>>].score_on_path,
                               alignment.n + alignment.m))
           ELSE score_out.value = Inf

\* C3: for n,m >= 1 with (n,m) present, path() returns the whole predecessor
\* chain from (n,m) to the origin in origin-to-end order, omitting only the
\* origin: the first node has predecessor (0,0), the last node is the node of
\* (n,m), each node's predecessor is the coordinate of the node before it.
C3_PathIsWholePredecessorChain ==
    (Constructed /\ alignment.n >= 1 /\ alignment.m >= 1
        /\ <<alignment.n, alignment.m>> \in DOMAIN alignment.sparse
        /\ path_out.status # "none") =>
        LET p == path_out.nodes
        IN  /\ path_out.status = "ok"
            /\ Len(p) >= 1
            /\ p[1].prev_i = 0 /\ p[1].prev_j = 0
            /\ p[Len(p)] = alignment.sparse[<<alignment.n, alignment.m>>]
            /\ \A t \in 2 .. Len(p) :
                   <<p[t].prev_i, p[t].prev_j>> = cur(p[t - 1])

\* C4: aligning a sequence of length n >= 1 with a copy of itself, the band
\* covering the table and all penalties 1, gives cumulative cost 0 at (n,n) and
\* a path of exactly n match nodes, one for each cell (1,1), ..., (n,n).
C4_SelfAlignmentIsFullDiagonal ==
    (Constructed /\ x = y /\ Len(x) >= 1
        /\ params.warping_band >= Len(x)
        /\ params.insertion_penalty = 1 /\ params.deletion_penalty = 1
        /\ params.match_penalty = 1
        /\ path_out.status # "none") =>
        /\ alignment.sparse[<<Len(x), Len(x)>>].score_on_path = 0
        /\ path_out.status = "ok"
        /\ Len(path_out.nodes) = Len(x)
        /\ \A t \in 1 .. Len(path_out.nodes) :
               /\ path_out.nodes[t].label = "Match"
               /\ cur(path_out.nodes[t]) = <<t, t>>

SwappedScores ==
    Alignment_score(construct_alignment(Alignment_new, y, x, params))

SameAsSwappedScore ==
    \E o \in SwappedScores :
        o.status = score_out.status /\ f32_eq(o.value, score_out.value)

FullBand == params.warping_band >= max(Len(x), Len(y))

\* C5 as claimed: with a band >= max(n,m), score() of the alignment of (X,Y)
\* equals score() of the alignment of (Y,X) under the same parameters.
C5_ScoreSymmetric ==
    (Constructed /\ FullBand /\ score_out.status # "none") => SameAsSwappedScore

\* C5 as amended: the same, for parameters whose insertion penalty equals
\* their deletion penalty.
C5_ScoreSymmetricForEqualPenalties ==
    (Constructed /\ FullBand /\ score_out.status # "none"
        /\ params.insertion_penalty = params.deletion_penalty) =>
        SameAsSwappedScore

C5_Witness ==
    /\ Constructed /\ FullBand
    /\ params.insertion_penalty = params.deletion_penalty
    /\ Len(x) # Len(y)
    /\ score_out.status = "ok"
    /\ score_out.value[1] \notin {0, INFINITY}

\* C6: when n = 0 or m = 0 the alignment does not fail: score() returns
\* infinity and path() returns the empty path.
C6_EmptyInputGivesInfinityAndEmptyPath ==
    (Constructed /\ (Len(x) = 0 \/ Len(y) = 0)) =>
        /\ score_out.status # "none" =>
               score_out.status = "ok" /\ score_out.value = Inf
        /\ path_out.status # "none" =>
               path_out.status = "ok" /\ path_out.nodes = <<>>

\* C7: for n,m >= 1 every cell construct_alignment inserts records a
\* predecessor that is present in the table and has a finite cumulative cost,
\* and path() never looks up an absent cell.
C7_PredecessorsPresent ==
    (Constructed /\ alignment.n >= 1 /\ alignment.m >= 1) =>
        /\ \A k \in DOMAIN alignment.sparse \ {<<0, 0>>} :
               /\ <<alignment.sparse[k].prev_i, alignment.sparse[k].prev_j>>
                      \in DOMAIN alignment.sparse
               /\ alignment.sparse[k].score_on_path # INFINITY
        /\ path_out.status # "panic"

\* a cell next to the band's edge (its neighbour above is outside the band)
\* lies on the path that was returned
C7_Witness ==
    /\ Constructed /\ alignment.n >= 1 /\ alignment.m >= 1
    /\ path_out.status = "ok"
    /\ \E t \in 1 .. Len(path_out.nodes) :
           LET k == cur(path_out.nodes[t])
           IN  k[1] >= 2 /\ <<k[1] - 1, k[2]>> \notin DOMAIN alignment.sparse

----------------------------------------------------------------------------
(* Properties of the scheduler *)

Workers == discover.alignment_workers

Corpus == Len(data)

\* row r is one of the rows batch b loops over: start <= r < stop
Owns(b, r) ==
    batch_start(b, Corpus, Workers) <= r /\ r < batch_stop(b, Corpus, Workers)

AllSpawned == main_pc \notin {"idle", "spawn"}

AllFinished ==
    AllSpawned /\ \A b \in 1 .. Len(children) : children[b].state = "finished"

SomePanicked == \E b \in 1 .. Len(children) : children[b].state = "panicked"

Returned == main_pc \in {"returned", "clustering", "panicked"}

\* C8: the row ranges of the workers are contiguous, pairwise disjoint and
\* cover rows 0..K-1; an off-diagonal cell (i,j) is written only by the worker
\* that owns row i, never twice, and exactly once when all workers have
\* finished; a diagonal cell is never written.
C8_DisjointRowsEachCellWrittenOnce ==
    (main_pc # "idle") =>
        /\ \A r \in 0 .. Corpus - 1 : \E b \in 0 .. Workers - 1 : Owns(b, r)
        /\ \A b1 \in 0 .. Workers - 1 : \A b2 \in 0 .. Workers - 1 :
               \A r1 \in 0 .. Corpus - 1 : \A r2 \in 0 .. Corpus - 1 :
                   (b1 < b2 /\ Owns(b1, r1) /\ Owns(b2, r2)) => r1 < r2
        /\ \A i \in 0 .. Corpus - 1 : \A j \in 0 .. Corpus - 1 :
               LET w == writes[cell_index(i, j, Corpus)]
               IN  IF i = j THEN w = <<>>
                   ELSE /\ Len(w) <= 1
                        /\ \A t \in 1 .. Len(w) : Owns(w[t], i)
                        /\ AllFinished => Len(w) = 1

C8_Witness ==
    /\ main_pc = "returned" /\ AllFinished
    /\ Corpus >= 3 /\ Workers >= 2
    /\ \A i \in 0 .. Corpus - 1 : \A j \in 0 .. Corpus - 1 :
           i # j => Len(writes[cell_index(i, j, Corpus)]) = 1

\* C9: if a worker thread panics before it has written all cells of its rows,
\* align_all does not return normally: the caller never goes on with an
\* off-diagonal cell that was not written.
C9_WorkerFailureFailsTheCall ==
    Returned =>
        \A i \in 0 .. Corpus - 1 : \A j \in 0 .. Corpus - 1 :
            i # j => Len(writes[cell_index(i, j, Corpus)]) >= 1

ExpectedResult ==
    [k \in 0 .. Corpus * Corpus - 1 |->
        LET i == k \div Corpus
            j == k % Corpus
        IN  IF i = j THEN Alignment_new
            ELSE pair_alignment(data, discover, i, j)]

\* C10: in a run without worker failure align_all returns only after every
\* worker has terminated, with each off-diagonal cell (i,j) holding the
\* alignment of sequence i against sequence j (whatever the interleaving and
\* the worker count), and no cell is written after it has returned.
C10_ReturnsCompleteBufferAfterJoin ==
    /\ [](Returned /\ ~SomePanicked => AllFinished /\ result = ExpectedResult)
    /\ [][Returned /\ ~SomePanicked => result' = result]_vars

C10_Witness ==
    /\ main_pc = "returned" /\ ~SomePanicked
    /\ Corpus >= 3 /\ Workers >= 2
    /\ result = ExpectedResult
    /\ \E k \in DOMAIN result : result[k].n # result[k].m

----------------------------------------------------------------------------
(* f32 quotients: <<numerator, denominator>>; a zero denominator is NaN *)

NaN == <<0, 0>>

is_nan(p) == p[2] = 0

\* p < q on f32: false as soon as one side is NaN
f32_lt(p, q) ==
    IF is_nan(p) \/ is_nan(q) THEN FALSE
    ELSE IF p[1] = INFINITY THEN FALSE
    ELSE IF q[1] = INFINITY THEN TRUE
    ELSE p[1] * q[2] < q[1] * p[2]

\* p + q on f32 (no negative values occur, so no INFINITY - INFINITY)
f32_sum(p, q) ==
    IF is_nan(p) \/ is_nan(q) THEN NaN
    ELSE IF p[1] = INFINITY \/ q[1] = INFINITY THEN <<INFINITY, 1>>
    ELSE <<p[1] * q[2] + q[1] * p[2], p[2] * q[2]>>

\* p / k on f32 for a count k >= 0: 0 / 0 is NaN, a positive value / 0 is
\* INFINITY
f32_quot(p, k) ==
    IF is_nan(p) THEN NaN
    ELSE IF k = 0 THEN (IF p[1] = 0 THEN NaN ELSE <<INFINITY, 1>>)
    ELSE IF p[1] = INFINITY THEN <<INFINITY, 1>>
    ELSE <<p[1], p[2] * k>>

\* the sum of the first k f32 values of s, added up from 0.0
RECURSIVE f32_total(_, _)
f32_total(s, k) ==
    IF k = 0 THEN <<0, 1>> ELSE f32_sum(f32_total(s, k - 1), s[k])

\* numerics.rs: mean.  The mean of an empty slice is 0.0 / 0.0
mean(xs) == f32_quot(f32_total(xs, Len(xs)), Len(xs))

----------------------------------------------------------------------------
(* numerics.rs: percentile *)

\* one insertion of the stable sort: v goes behind every element not above it
RECURSIVE sort_insert(_, _)
sort_insert(s, v) ==
    IF s = <<>> THEN <<v>>
    ELSE IF f32_lt(v, Head(s)) THEN <<v>> \o s
    ELSE <<Head(s)>> \o sort_insert(Tail(s), v)

\* numbers.sort_by(|a, b| a.partial_cmp(b).unwrap()) on the first k elements
RECURSIVE sort_by(_, _)
sort_by(s, k) == IF k = 0 THEN <<>> ELSE sort_insert(sort_by(s, k - 1), s[k])

\* percentile(x, perc), perc given in percent.  The index is taken from the
\* length of x before the NaN filter; an index past the filtered, sorted
\* vector is an out-of-bounds panic.
percentile(xs, p) ==
    LET n == (Len(xs) * p) \div 100
        filtered == SelectSeq(xs, LAMBDA v : ~is_nan(v))
        numbers == sort_by(filtered, Len(filtered))
    IN  IF n < Len(numbers)
        THEN [status |-> "ok", value |-> numbers[n + 1]]
        ELSE [status |-> "panic", value |-> NaN]

----------------------------------------------------------------------------
(* percentile on its own: one call on a slice that may hold NaN *)

MaxValues == 4

PercentileValues == {NaN, <<0, 1>>, <<1, 1>>, <<2, 1>>}

Percentiles == {0, 50, 100}

RECURSIVE ValuesUpTo(_)
ValuesUpTo(k) ==
    IF k = 0 THEN {<<>>}
    ELSE LET shorter == ValuesUpTo(k - 1)
         IN  shorter \cup {Append(s, v) : s \in {t \in shorter : Len(t) = k - 1},
                                          v \in PercentileValues}

InitPercentile ==
    /\ numbers_in \in ValuesUpTo(MaxValues)
    /\ numbers_perc \in Percentiles
    /\ percentile_out = [status |-> "none", value |-> <<0, 1>>]
    /\ AlignerIdle
    /\ WorkersIdle
    /\ ClusterIdle
    /\ MergingIdle
    /\ CandidatesIdle
    /\ ViterbiIdle

Percentile ==
    /\ percentile_out.status = "none"
    /\ percentile_out' = percentile(numbers_in, numbers_perc)
    /\ UNCHANGED <<numbers_in, numbers_perc>>
    /\ UNCHANGED <<aligner_vars, worker_vars, cluster_vars, merging_vars>>
    /\ UNCHANGED <<candidate_vars, viterbi_vars>>

NextPercentile == Percentile

SpecPercentile == InitPercentile /\ [][NextPercentile]_vars

----------------------------------------------------------------------------
(* clustering.rs: AgglomerativeClustering *)

\* the struct as clustering() builds it
AgglomerativeClustering(ds, n) ==
    [distances |-> ds, n_instances |-> n, n_clusters |-> n,
     parents |-> [i \in 1 .. n |-> i - 1]]

ClusteringOperation(i, j, k, d, kind) ==
    [merge_i |-> i, merge_j |-> j, into |-> k, distance |-> d,
     operation |-> kind]

\* cluster(i): follow the parents up to the root
RECURSIVE cluster(_, _)
cluster(dg, i) ==
    IF dg.parents[i + 1] = i THEN i ELSE cluster(dg, dg.parents[i + 1])

\* (0..n_instances).map(|i| self.cluster(i)).collect(), first k instances
RECURSIVE assignment_upto(_, _)
assignment_upto(dg, k) ==
    IF k = 0 THEN <<>>
    ELSE Append(assignment_upto(dg, k - 1), cluster(dg, k - 1))

assignment(dg) == assignment_upto(dg, dg.n_instances)

clusters(dg) == {cluster(dg, i) : i \in 0 .. dg.n_instances - 1}

\* The iteration orders of a HashSet<usize>: std's default hasher is seeded
\* at random, so each run may visit the ids in another order.
RECURSIVE Orders(_)
Orders(S) ==
    IF S = {} THEN {<<>>}
    ELSE UNION {{<<e>> \o o : o \in Orders(S \ {e})} : e \in S}

merge_clusters(dg, p, q) ==
    LET k == Len(dg.parents)
    IN  [dg EXCEPT !.parents = Append([@ EXCEPT ![p + 1] = k, ![q + 1] = k], k),
                   !.n_clusters = @ - 1]

\* linkage: the double loop over (x, y), flattened to k = x * len + y; this
\* is `distance` after the first k turns
RECURSIVE linkage_distance(_, _, _, _, _)
linkage_distance(dg, asg, i, j, k) ==
    IF k = 0 THEN <<0, 1>>
    ELSE LET sofar == linkage_distance(dg, asg, i, j, k - 1)
             r == (k - 1) \div Len(asg)
             c == (k - 1) % Len(asg)
         IN  IF asg[r + 1] = i /\ asg[c + 1] = j
             THEN f32_sum(sofar, dg.distances[r * dg.n_instances + c + 1])
             ELSE sofar

linkage(dg, asg, i, j) ==
    LET size_x == Cardinality({r \in 1 .. Len(asg) : asg[r] = i})
        size_y == IF size_x = 0 THEN 0
                  ELSE Cardinality({c \in 1 .. Len(asg) : asg[c] = j})
    IN  f32_quot(linkage_distance(dg, asg, i, j, Len(asg) * Len(asg)),
                 size_x * size_y)

\* The linkages merge's double loop asks for, row-major over the ids of
\* `parents` (first k of them); an id that is no cluster root is never asked
\* for.  merge computes each of them inside the loop; they do not depend on
\* the order of the visit, so they are computed once for all orders.
RECURSIVE linkages(_, _, _)
linkages(dg, asg, k) ==
    IF k = 0 THEN <<>>
    ELSE LET i == (k - 1) \div Len(dg.parents)
             j == (k - 1) % Len(dg.parents)
             roots == {asg[r] : r \in 1 .. Len(asg)}
         IN  Append(linkages(dg, asg, k - 1),
                    IF i \in roots /\ j \in roots /\ i # j
                    THEN linkage(dg, asg, i, j) ELSE NaN)

all_linkages(dg) ==
    linkages(dg, assignment(dg), Len(dg.parents) * Len(dg.parents))

\* a search that keeps the pair it visited last, whatever its linkage
RECURSIVE min_merge_last_pair(_, _, _, _)
min_merge_last_pair(dg, links, ord, k) ==
    IF k = 0 THEN [min_linkage |-> <<INFINITY, 1>>, min_merge |-> <<0, 0>>]
    ELSE LET sofar == min_merge_last_pair(dg, links, ord, k - 1)
             target_i == ord[(k - 1) \div Len(ord) + 1]
             target_j == ord[((k - 1) % Len(ord)) + 1]
             l == links[target_i * Len(dg.parents) + target_j + 1]
         IN  IF target_i # target_j
             THEN [min_linkage |-> l, min_merge |-> <<target_i, target_j>>]
             ELSE sofar

\* merge: (min_linkage, min_merge) after the first k turns of the double
\* loop over the cluster set, visited in the order ord
RECURSIVE min_merge(_, _, _, _)
min_merge(dg, links, ord, k) ==
    IF k = 0 THEN [min_linkage |-> <<INFINITY, 1>>, min_merge |-> <<0, 0>>]
    ELSE LET sofar == min_merge(dg, links, ord, k - 1)
             target_i == ord[(k - 1) \div Len(ord) + 1]
             target_j == ord[((k - 1) % Len(ord)) + 1]
             l == links[target_i * Len(dg.parents) + target_j + 1]
         IN  IF target_i # target_j /\ f32_lt(l, sofar.min_linkage)
             THEN [min_linkage |-> l, min_merge |-> <<target_i, target_j>>]
             ELSE sofar

merge(dg, links, ord) ==
    LET found == min_merge(dg, links, ord, Len(ord) * Len(ord))
        p == found.min_merge[1]
        q == found.min_merge[2]
        n == dg.n_instances
        kind == IF p < n /\ q < n THEN "Sequence2Sequence"
                ELSE IF p >= n /\ q >= n THEN "Cluster2Cluster"
                ELSE IF p >= n /\ q < n THEN "Cluster2Sequence"
                ELSE "Sequence2Cluster"
    IN  [dendogram |-> merge_clusters(dg, p, q),
         operation |-> ClusteringOperation(p, q, Len(dg.parents),
                                           found.min_linkage, kind)]

\* cluster_sets, first loop: `results` after the first k operations
RECURSIVE cluster_sets_results(_, _)
cluster_sets_results(ops, k) ==
    IF k = 0 THEN <<>>
    ELSE LET results == cluster_sets_results(ops, k - 1)
             op == ops[k]
             get(c) == IF c \in DOMAIN results THEN results[c] ELSE <<c>>
             members == get(op.merge_i) \o get(op.merge_j)
         IN  [c \in DOMAIN results \cup {op.into} |->
                 IF c = op.into THEN members ELSE results[c]]

\* cluster_sets, second loop: `grouped` after the first k cluster ids of the
\* set, visited in the order ord; an id without an entry is only printed
RECURSIVE cluster_sets_grouped(_, _, _, _)
cluster_sets_grouped(results, ord, n, k) ==
    IF k = 0 THEN <<>>
    ELSE LET sofar == cluster_sets_grouped(results, ord, n, k - 1)
         IN  IF ord[k] \in DOMAIN results
             THEN Append(sofar, SelectSeq(results[ord[k]], LAMBDA i : i < n))
             ELSE sofar

cluster_sets(ops, ord, n) ==
    cluster_sets_grouped(cluster_sets_results(ops, Len(ops)), ord, n, Len(ord))

----------------------------------------------------------------------------
(* clustering(distances, n_instances, perc), then cluster_sets, as learn     *)
(* calls them                                                              *)

MaxInstances == 3

\* percentiles in percent
ClusteringPercentiles == {0, 50, 100}
DistanceValues == {1, 2}
\* the diagonal of the scheduler's matrix is the score of an empty alignment
DiagonalValues == {0, INFINITY}

\* Row-major n * n matrices, first k entries: one value on the diagonal,
\* INFINITY for every pair with an instance the aligner could not reach,
\* any distance elsewhere
RECURSIVE MatrixPrefixes(_, _, _, _)
MatrixPrefixes(n, diag, unreached, k) ==
    IF k = 0 THEN {<<>>}
    ELSE LET r == (k - 1) \div n
             c == (k - 1) % n
             entries == IF r = c THEN {diag}
                        ELSE IF r \in unreached \/ c \in unreached
                             THEN {INFINITY}
                             ELSE DistanceValues
         IN  {Append(m, <<v, 1>>) :
                 m \in MatrixPrefixes(n, diag, unreached, k - 1), v \in entries}

Matrices(n) ==
    UNION {MatrixPrefixes(n, diag, unreached, n * n) :
              diag \in DiagonalValues, unreached \in SUBSET (0 .. n - 1)}

\* Four instances A, B, C, D = 0, 1, 2, 3: A-B and C-D close in both
\* directions, every cross pair far
NearValues == {0, 1}
LargeValues == {8, 9}

TwoPairsMatrices ==
    {[k \in 1 .. 16 |->
        LET r == (k - 1) \div 4
            c == (k - 1) % 4
        IN  IF r = c THEN <<diag, 1>>
            ELSE IF r \div 2 = c \div 2 THEN <<near[r], 1>>
            ELSE <<large[r], 1>>] :
        diag \in DiagonalValues, near \in [0 .. 3 -> NearValues],
        large \in [0 .. 3 -> LargeValues]}

InitCluster ==
    /\ dendogram \in
           {AgglomerativeClustering(ds, 4) : ds \in TwoPairsMatrices}
           \cup UNION {{AgglomerativeClustering(ds, n) : ds \in Matrices(n)} :
                           n \in 0 .. MaxInstances}
    /\ perc \in ClusteringPercentiles
    /\ threshold = <<0, 1>>
    /\ loop_distance = <<0, 1>>
    /\ cluster_result = <<>>
    /\ cluster_pc = "percentile"
    /\ before_merge = <<>>
    /\ clusters_out = {}
    /\ grouped = <<>>
    /\ AlignerIdle
    /\ WorkersIdle
    /\ MergingIdle
    /\ CandidatesIdle
    /\ PercentileIdle
    /\ ViterbiIdle

\* let threshold = percentile(&mut distances.clone(), perc)
Threshold ==
    /\ cluster_pc = "percentile"
    /\ LET t == percentile(dendogram.distances, perc)
       IN  IF t.status = "ok"
           THEN threshold' = t.value /\ cluster_pc' = "loop"
           ELSE threshold' = threshold /\ cluster_pc' = "panicked"
    /\ UNCHANGED <<dendogram, perc, loop_distance, cluster_result,
                   before_merge, clusters_out, grouped>>
    /\ UNCHANGED <<aligner_vars, worker_vars, merging_vars>>
    /\ UNCHANGED <<candidate_vars, percentile_vars, viterbi_vars>>

\* one turn of `while dendogram.n_clusters > 1 && distance < threshold`
Merge ==
    /\ cluster_pc = "loop"
    /\ dendogram.n_clusters > 1
    /\ f32_lt(loop_distance, threshold)
    /\ \E merged \in LET links == all_linkages(dendogram)
                     IN  {merge(dendogram, links, ord) :
                             ord \in Orders(clusters(dendogram))} :
           /\ dendogram' = merged.dendogram
           /\ loop_distance' = merged.operation.distance
           /\ cluster_result' = Append(cluster_result, merged.operation)
    /\ before_merge' = Append(before_merge, dendogram)
    /\ UNCHANGED <<perc, threshold, cluster_pc, clusters_out, grouped>>
    /\ UNCHANGED <<aligner_vars, worker_vars, merging_vars>>
    /\ UNCHANGED <<candidate_vars, percentile_vars, viterbi_vars>>

\* the loop ends: (cluster_result, dendogram.clusters()) is returned
Return ==
    /\ cluster_pc = "loop"
    /\ ~(dendogram.n_clusters > 1 /\ f32_lt(loop_distance, threshold))
    /\ clusters_out' = clusters(dendogram)
    /\ cluster_pc' = "returned"
    /\ UNCHANGED <<dendogram, perc, threshold, loop_distance, cluster_result,
                   before_merge, grouped>>
    /\ UNCHANGED <<aligner_vars, worker_vars, merging_vars>>
    /\ UNCHANGED <<candidate_vars, percentile_vars, viterbi_vars>>

\* learn: cluster_sets(&operations, &clusters, interesting.len())
ClusterSets ==
    /\ cluster_pc = "returned"
    /\ \E ord \in Orders(clusters_out) :
           grouped' = cluster_sets(cluster_result, ord, dendogram.n_instances)
    /\ cluster_pc' = "grouped"
    /\ UNCHANGED <<dendogram, perc, threshold, loop_distance, cluster_result,
                   before_merge, clusters_out>>
    /\ UNCHANGED <<aligner_vars, worker_vars, merging_vars>>
    /\ UNCHANGED <<candidate_vars, percentile_vars, viterbi_vars>>

NextCluster == Threshold \/ Merge \/ Return \/ ClusterSets

SpecCluster == InitCluster /\ [][NextCluster]_vars

----------------------------------------------------------------------------
(* aligned_model_merging.rs: ModelMerging.  Transition, start and stop     *)
(* masses are integers until shrink normalises them; a feature value is a  *)
(* quotient, since every merge halves a sum.  Frames are 1-dimensional.    *)

HiddenMarkovModel(n, tr, st, sp, feats, seg) ==
    [n_states |-> n, dim |-> 1, trans |-> tr, start |-> st, stop |-> sp,
     states |-> feats, is_segmental |-> seg]

\* the number of frames in the slices before slice number s (0-based)
RECURSIVE frames_before(_, _)
frames_before(sl, s) ==
    IF s = 0 THEN 0 ELSE frames_before(sl, s - 1) + Len(sl[s])

\* state_map[&(s, t)] as from_slices fills it
state_map(sl, s, t) == frames_before(sl, s) + t

\* the (slice, timestep) a state was made for
slice_of(sl, state) ==
    CHOOSE s \in 0 .. Len(sl) - 1 :
        frames_before(sl, s) <= state /\ state < frames_before(sl, s + 1)

from_slices(sl) ==
    LET n == frames_before(sl, Len(sl))
        t_of(state) == state - frames_before(sl, slice_of(sl, state))
        last(state) == t_of(state) = Len(sl[slice_of(sl, state) + 1]) - 1
    IN  [hmm |-> HiddenMarkovModel(
                    n,
                    [k \in 1 .. n * n |->
                        LET from == (k - 1) \div n
                            to == (k - 1) % n
                        IN  IF to = from + 1 /\ ~last(from) THEN 1 ELSE 0],
                    [k \in 1 .. n |-> IF t_of(k - 1) = 0 THEN 1 ELSE 0],
                    [k \in 1 .. n |-> IF last(k - 1) THEN 1 ELSE 0],
                    [k \in 1 .. n |->
                        <<sl[slice_of(sl, k - 1) + 1][t_of(k - 1) + 1], 1>>],
                    [k \in 1 .. n |-> FALSE]),
         merge_parent |-> [k \in 1 .. n |-> k - 1]]

RECURSIVE find_parent(_, _)
find_parent(mm, i) ==
    IF mm.merge_parent[i + 1] = i THEN i
    ELSE find_parent(mm, mm.merge_parent[i + 1])

\* a merge that redirects the absorbing state instead of the absorbed one
merge_redirects_smaller(mm, state_i, state_j, from_alignment) ==
    LET lo == min(state_i, state_j)
        hi == max(state_i, state_j)
    IN  IF lo = hi THEN mm
        ELSE [mm EXCEPT !.merge_parent[lo + 1] = hi]

\* a merge that keeps the transition masses of the two states but adds no
\* transition of the merged state to itself
merge_without_self_transition(mm, state_i, state_j, from_alignment) ==
    LET lo == min(state_i, state_j)
        hi == max(state_i, state_j)
        n == mm.hmm.n_states
        at(r, c) == r * n + c + 1
        rows == [k \in 1 .. n * n |->
                    IF (k - 1) \div n = lo
                    THEN mm.hmm.trans[k] + mm.hmm.trans[at(hi, (k - 1) % n)]
                    ELSE mm.hmm.trans[k]]
        cols == [k \in 1 .. n * n |->
                    IF (k - 1) % n = lo
                    THEN rows[k] + rows[at((k - 1) \div n, hi)]
                    ELSE rows[k]]
    IN  IF lo = hi THEN mm
        ELSE [mm EXCEPT
                 !.hmm.trans = cols,
                 !.hmm.start[lo + 1] = @ + mm.hmm.start[hi + 1],
                 !.hmm.stop[lo + 1] = @ + mm.hmm.stop[hi + 1],
                 !.hmm.states[lo + 1] =
                     f32_quot(f32_sum(@, mm.hmm.states[hi + 1]), 2),
                 !.hmm.is_segmental[lo + 1] = @ \/ from_alignment,
                 !.merge_parent[hi + 1] = lo]

\* ModelMerging::merge
RECURSIVE ModelMerging_merge(_, _, _, _)
ModelMerging_merge(mm, state_i, state_j, from_alignment) ==
    IF state_i <= state_j
    THEN IF state_i # state_j
         THEN LET n == mm.hmm.n_states
                  at(r, c) == r * n + c + 1
                  \* outgoing connections of j added to i
                  rows == [k \in 1 .. n * n |->
                              IF (k - 1) \div n = state_i
                              THEN mm.hmm.trans[k]
                                   + mm.hmm.trans[at(state_j, (k - 1) % n)]
                              ELSE mm.hmm.trans[k]]
                  \* incoming connections of j added to i
                  cols == [k \in 1 .. n * n |->
                              IF (k - 1) % n = state_i
                              THEN rows[k] + rows[at((k - 1) \div n, state_j)]
                              ELSE rows[k]]
              IN  [mm EXCEPT
                      !.hmm.trans =
                          [cols EXCEPT ![at(state_i, state_i)] = @ + 1],
                      !.hmm.start[state_i + 1] =
                          @ + mm.hmm.start[state_j + 1],
                      !.hmm.stop[state_i + 1] = @ + mm.hmm.stop[state_j + 1],
                      !.hmm.states[state_i + 1] =
                          f32_quot(f32_sum(@, mm.hmm.states[state_j + 1]), 2),
                      !.hmm.is_segmental[state_i + 1] = @ \/ from_alignment,
                      !.merge_parent[state_j + 1] = state_i]
         ELSE mm
    ELSE ModelMerging_merge(mm, state_j, state_i, from_alignment)

MergeOperation(si, sj, ti, tj, d, fa) ==
    [slice_i |-> si, slice_j |-> sj, i |-> ti, j |-> tj, dist |-> d,
     is_from_alignment |-> fa]

\* one turn of merge_all's loop over the operations
merge_all_turn(sl, st, op) ==
    LET state_i == find_parent(st.merger, state_map(sl, op.slice_i, op.i))
        state_j == find_parent(st.merger, state_map(sl, op.slice_j, op.j))
    IN  IF <<state_i, state_j>> \notin st.closed
        THEN [merger |-> ModelMerging_merge(st.merger, state_i, state_j,
                                            op.is_from_alignment),
              closed |-> st.closed
                         \cup {<<state_i, state_j>>, <<state_j, state_i>>}]
        ELSE st

\* merge_all's loop after the first k operations
RECURSIVE merge_all(_, _, _)
merge_all(sl, ops, k) ==
    IF k = 0 THEN [merger |-> from_slices(sl), closed |-> {}]
    ELSE merge_all_turn(sl, merge_all(sl, ops, k - 1), ops[k])

\* shrink, first loop: the roots in the order in which they get a new id
RECURSIVE used_states(_, _)
used_states(mm, k) ==
    IF k = 0 THEN <<>>
    ELSE LET sofar == used_states(mm, k - 1)
             state == find_parent(mm, k - 1)
         IN  IF \E u \in DOMAIN sofar : sofar[u] = state THEN sofar
             ELSE Append(sofar, state)

\* HiddenMarkovModel::normalize_transitions: each row of trans is divided by
\* its sum, start and stop by theirs (0 / 0 is NaN)
RECURSIVE sum_upto(_, _)
sum_upto(s, k) == IF k = 0 THEN 0 ELSE sum_upto(s, k - 1) + s[k]

normalize_transitions(h) ==
    LET n == h.n_states
        scaler(i) == sum_upto([j \in 1 .. n |-> h.trans[i * n + j]], n)
    IN  [h EXCEPT
            !.trans = [k \in 1 .. n * n |->
                          f32_quot(<<h.trans[k], 1>>, scaler((k - 1) \div n))],
            !.start = [k \in 1 .. n |->
                          f32_quot(<<h.start[k], 1>>, sum_upto(h.start, n))],
            !.stop = [k \in 1 .. n |->
                         f32_quot(<<h.stop[k], 1>>, sum_upto(h.stop, n))]]

\* shrink up to its last statement: every new state copies the start, stop,
\* flag, feature and transitions of its root
shrink_states(mm) ==
    LET used == used_states(mm, Len(mm.merge_parent))
        n_states == Len(used)
        n == mm.hmm.n_states
    IN  HiddenMarkovModel(
            n_states,
            [k \in 1 .. n_states * n_states |->
                mm.hmm.trans[used[(k - 1) \div n_states + 1] * n
                             + used[((k - 1) % n_states) + 1] + 1]],
            [k \in 1 .. n_states |-> mm.hmm.start[used[k] + 1]],
            [k \in 1 .. n_states |-> mm.hmm.stop[used[k] + 1]],
            [k \in 1 .. n_states |-> mm.hmm.states[used[k] + 1]],
            [k \in 1 .. n_states |-> mm.hmm.is_segmental[used[k] + 1]])

\* shrink: the copied automaton, normalised
shrink(mm) == normalize_transitions(shrink_states(mm))

----------------------------------------------------------------------------
(* learn: from_slices, merge_all, shrink for one cluster *)

MaxStates == 4
MaxOps == 3

\* the member sequences of a cluster: non-empty lists of non-empty slices
RECURSIVE SliceLists(_)
SliceLists(c) ==
    IF c = 0 THEN {<<>>}
    ELSE LET fewer == SliceLists(c - 1)
         IN  fewer \cup UNION
             {{Append(l, s) : s \in {t \in SeqsUpTo(MaxStates) :
                                        /\ Len(t) >= 1
                                        /\ frames_before(l, Len(l)) + Len(t)
                                               <= MaxStates}} :
                 l \in {f \in fewer : Len(f) = c - 1}}

\* What merges_from_alignments can return for these slices: a frame merged
\* into the frame before it, and the two frames of a path node of a pair
\* (x, y), y < x, whose coordinates are inside both slices
Candidates(sl) ==
    {MergeOperation(s, s, t, t - 1, <<0, 1>>, FALSE) :
        s \in 0 .. Len(sl) - 1, t \in 1 .. MaxStates} \cup
    {MergeOperation(s[1], s[2], t[1], t[2], <<0, 1>>, TRUE) :
        s \in (0 .. Len(sl) - 1) \X (0 .. Len(sl) - 1),
        t \in (1 .. MaxStates) \X (1 .. MaxStates)}

ValidCandidates(sl) ==
    {op \in Candidates(sl) :
        /\ op.i < Len(sl[op.slice_i + 1])
        /\ op.j < Len(sl[op.slice_j + 1])
        /\ op.is_from_alignment => op.slice_j < op.slice_i}

RECURSIVE OperationLists(_, _)
OperationLists(sl, k) ==
    IF k = 0 THEN {<<>>}
    ELSE LET shorter == OperationLists(sl, k - 1)
         IN  shorter \cup
             {Append(l, op) : l \in {f \in shorter : Len(f) = k - 1},
                              op \in ValidCandidates(sl)}

InitMerging ==
    /\ slices \in SliceLists(MaxStates) \ {<<>>}
    /\ operations \in OperationLists(slices, MaxOps)
    /\ merger = from_slices(slices)
    /\ closed = {}
    /\ op_index = 0
    /\ merge_pc = "merge_all"
    /\ compacted = HiddenMarkovModel(0, <<>>, <<>>, <<>>, <<>>, <<>>)
    /\ AlignerIdle
    /\ WorkersIdle
    /\ ClusterIdle
    /\ CandidatesIdle
    /\ PercentileIdle
    /\ ViterbiIdle

\* one turn of `for op in operations`
MergeAllTurn ==
    /\ merge_pc = "merge_all"
    /\ op_index < Len(operations)
    /\ LET st == merge_all_turn(slices, [merger |-> merger, closed |-> closed],
                                operations[op_index + 1])
       IN  merger' = st.merger /\ closed' = st.closed
    /\ op_index' = op_index + 1
    /\ UNCHANGED <<slices, operations, merge_pc, compacted>>
    /\ UNCHANGED <<aligner_vars, worker_vars, cluster_vars>>
    /\ UNCHANGED <<candidate_vars, percentile_vars, viterbi_vars>>

\* hmms.push(merger.shrink())
Shrink ==
    /\ merge_pc = "merge_all"
    /\ op_index = Len(operations)
    /\ compacted' = shrink(merger)
    /\ merge_pc' = "shrunk"
    /\ UNCHANGED <<slices, operations, merger, closed, op_index>>
    /\ UNCHANGED <<aligner_vars, worker_vars, cluster_vars>>
    /\ UNCHANGED <<candidate_vars, percentile_vars, viterbi_vars>>

NextMerging == MergeAllTurn \/ Shrink

SpecMerging == InitMerging /\ [][NextMerging]_vars

----------------------------------------------------------------------------
(* aligned_model_merging.rs: merges_from_alignment *)

\* the smoothing loop: moving_avg[i] is mean(&distances[i - k..i]) from
\* i = k on and 0.0 before (0-based i)
moving_avg(dists, k) ==
    [i \in 0 .. Len(dists) - 1 |->
        IF i >= k THEN mean(SubSeq(dists, i - k + 1, i)) ELSE <<0, 1>>]

\* the local `distance` of path step t (0-based)
smoothed_distance(dists, k, t) ==
    IF t < k THEN dists[t + 1] ELSE moving_avg(dists, k)[t - k]

\* dist_i, dist_j: 0.0, then the distance of every frame to the frame before
dist_to_previous(s) ==
    [t \in 1 .. max(Len(s), 1) |->
        IF t = 1 THEN <<0, 1>>
        ELSE <<euclidean(vec(s, t - 1), vec(s, t - 2)), 1>>]

\* the operations pushed for path step t (0-based)
node_operations(mx, my, slice_i, slice_j, node, distance, th_i, th_j, th) ==
    LET i == cur(node)[1]
        j == cur(node)[2]
        dist2prev_i == IF i > 0 THEN dist_to_previous(slice_i)[i + 1]
                       ELSE <<INFINITY, 1>>
        dist2prev_j == IF j > 0 THEN dist_to_previous(slice_j)[j + 1]
                       ELSE <<INFINITY, 1>>
    IN  IF i < Len(slice_i) /\ j < Len(slice_j)
        THEN (IF f32_lt(dist2prev_i, th_i)
              THEN <<MergeOperation(mx, mx, i, i - 1,
                                    dist2prev_i, FALSE)>>
              ELSE <<>>)
             \o (IF f32_lt(dist2prev_j, th_j)
                 THEN <<MergeOperation(my, my, j, j - 1,
                                       dist2prev_j, FALSE)>>
                 ELSE <<>>)
             \o (IF node.label = "Match" /\ f32_lt(distance, th)
                 THEN <<MergeOperation(mx, my, i, j, distance,
                                       TRUE)>>
                 ELSE <<>>)
        ELSE <<>>

\* merges_from_alignment(x, y, slices, path, perc, th, k); a percentile that
\* indexes out of bounds panics
merges_from_alignment(member_x, member_y, sl, path, p, th, k) ==
    LET dists == [t \in 1 .. Len(path) |-> <<path[t].score, 1>>]
        slice_i == sl[member_x + 1]
        slice_j == sl[member_y + 1]
        internal_th_i == percentile(dist_to_previous(slice_i), p)
        internal_th_j == percentile(dist_to_previous(slice_j), p)
        pushed[t \in 0 .. Len(path)] ==
            IF t = 0 THEN <<>>
            ELSE pushed[t - 1]
                 \o node_operations(member_x, member_y, slice_i, slice_j,
                                    path[t],
                                    smoothed_distance(dists, k, t - 1),
                                    internal_th_i.value, internal_th_j.value,
                                    th)
    IN  IF internal_th_i.status = "panic" \/ internal_th_j.status = "panic"
        THEN [status |-> "panic", ops |-> <<>>]
        ELSE [status |-> "ok", ops |-> pushed[Len(path)]]

----------------------------------------------------------------------------
(* learn: one aligned pair of a cluster, members x = 1 and y = 0, handed to *)
(* merges_from_alignment                                                    *)

CandidateBands == {0, MaxLen}

InternalPercentiles == {0, 50, 75, 100}

MergeThresholds == {<<1, 1>>, <<2, 1>>}

MovingValues == {0, 1, 2}

InitCandidates ==
    /\ x \in NDSequences \ {<<>>}
    /\ y \in NDSequences \ {<<>>}
    /\ params \in {AlignmentParams(b, <<1, 1, 1>>) : b \in CandidateBands}
    /\ alignment = Alignment_new
    /\ score_out = NotCalled
    /\ path_out = NoPath
    /\ CandidatesIdle
    /\ WorkersIdle
    /\ ClusterIdle
    /\ MergingIdle
    /\ PercentileIdle
    /\ ViterbiIdle

\* merges_from_alignment on the path of the constructed alignment
MergesFromAlignment ==
    /\ alignment.n = Len(x) /\ alignment.m = Len(y)
    /\ path_out.status = "ok"
    /\ merges_out.status = "none"
    /\ \E p \in InternalPercentiles, th \in MergeThresholds,
          k \in MovingValues :
           /\ internal_perc' = p
           /\ merge_th' = th
           /\ moving' = k
           /\ merges_out' = merges_from_alignment(1, 0, <<y, x>>,
                                                  path_out.nodes, p, th, k)
    /\ UNCHANGED <<aligner_vars, worker_vars, cluster_vars, merging_vars>>
    /\ UNCHANGED <<percentile_vars, viterbi_vars>>

NextCandidates == ConstructAlignment \/ Path \/ MergesFromAlignment

SpecCandidates == InitCandidates /\ [][NextCandidates]_vars

----------------------------------------------------------------------------
(* hidden_markov_model.rs: viterbi.  Log scores are kept in units of ln 2, *)
(* as quotients <<v, 1>>: the probabilities of the model are 0, NaN or     *)
(* 1 / 2^e, so that ln is exact.                                           *)

NEG_INFINITY == 0 - INFINITY

RECURSIVE log2(_)
log2(k) == IF k <= 1 THEN 0 ELSE 1 + log2(k \div 2)

\* f32::ln of a probability: ln(NaN) is NaN, ln(0.0) is -inf
ln(p) ==
    IF is_nan(p) THEN NaN
    ELSE IF p[1] = 0 THEN <<NEG_INFINITY, 1>>
    ELSE <<0 - log2(p[2] \div p[1]), 1>>

\* a + b on log scores (+inf does not occur)
log_add(a, b) ==
    IF is_nan(a) \/ is_nan(b) THEN NaN
    ELSE IF a[1] = NEG_INFINITY \/ b[1] = NEG_INFINITY
    THEN <<NEG_INFINITY, 1>>
    ELSE <<a[1] + b[1], 1>>

\* a > b on log scores: false as soon as one side is NaN
log_gt(a, b) == ~is_nan(a) /\ ~is_nan(b) /\ a[1] > b[1]

\* numerics::ll of a frame under the gaussian of a state, as far as it
\* depends on the frame: minus the squared distance to the mean (the
\* variance is the same for every state, and the constant term of the
\* density, the same for every state and frame, is left out)
ll(v, mu) == <<0 - (abs(v, mu) * abs(v, mu)), 1>>

\* the inner loop of viterbi taken for state 0 only
previous_of_first_state(h, before, i) ==
    log_add(before[1], ln(h.trans[i + 1]))

\* the inner loop of viterbi after its first k turns: the best score so far
\* of a path that enters state i
RECURSIVE best_previous_upto(_, _, _, _)
best_previous_upto(h, before, i, k) ==
    IF k = 0 THEN <<NEG_INFINITY, 1>>
    ELSE LET sofar == best_previous_upto(h, before, i, k - 1)
             entering == log_add(before[k],
                                 ln(h.trans[(k - 1) * h.n_states + i + 1]))
         IN  IF log_gt(entering, sofar) THEN entering ELSE sofar

best_previous(h, before, i) == best_previous_upto(h, before, i, h.n_states)

\* the first k entries of row 0 of vite
RECURSIVE first_row(_, _, _)
first_row(h, sig, k) ==
    IF k = 0 THEN <<>>
    ELSE Append(first_row(h, sig, k - 1),
                log_add(ln(h.start[k]), ll(vec(sig, 0), h.means[k])))

\* the first k entries of row t >= 1 of vite, `before` being row t - 1
RECURSIVE next_row(_, _, _, _, _)
next_row(h, sig, before, t, k) ==
    IF k = 0 THEN <<>>
    ELSE Append(next_row(h, sig, before, t, k - 1),
                log_add(best_previous(h, before, k - 1),
                        ll(vec(sig, t), h.means[k])))

\* row t (0-based) of vite, before the stop probabilities are added
RECURSIVE vite(_, _, _)
vite(h, sig, t) ==
    IF t = 0 THEN first_row(h, sig, h.n_states)
    ELSE next_row(h, sig, vite(h, sig, t - 1), t, h.n_states)

\* the last loop of viterbi after its first k turns: the best final score
RECURSIVE best_stopped(_, _, _)
best_stopped(h, last, k) ==
    IF k = 0 THEN <<NEG_INFINITY, 1>>
    ELSE LET sofar == best_stopped(h, last, k - 1)
             stopped == log_add(last[k], ln(h.stop[k]))
         IN  IF log_gt(stopped, sofar) THEN stopped ELSE sofar

\* viterbi(spec) for len >= 1
viterbi(h, sig) ==
    LET len == Len(sig)
        best == best_stopped(h, vite(h, sig, len - 1), h.n_states)
    IN  [status |-> "ok",
         value |-> IF best[1] = NEG_INFINITY THEN best ELSE <<best[1], len>>]

----------------------------------------------------------------------------
(* viterbi on its own: one automaton, one observation sequence *)

MaxHmmStates == 2
MaxObservations == 2

\* the rows a normalised automaton of chains and self transitions has for
\* state i: no mass at all (NaN), all mass on i, all on the next state, or
\* split between i and the states after it
TransitionRows(n, i) ==
    LET next == (i + 1) % n
        after == (i + 2) % n
    IN  {[j \in 1 .. n |-> NaN],
         [j \in 1 .. n |-> IF j - 1 = i THEN <<1, 1>> ELSE <<0, 1>>],
         [j \in 1 .. n |-> IF j - 1 = next THEN <<1, 1>> ELSE <<0, 1>>],
         [j \in 1 .. n |-> IF j - 1 \in {i, next} THEN <<1, 2>> ELSE <<0, 1>>],
         [j \in 1 .. n |-> IF j - 1 = i THEN <<1, 2>>
                           ELSE IF j - 1 \in {next, after} THEN <<1, 4>>
                           ELSE <<0, 1>>]}

RECURSIVE TransitionMatrices(_, _)
TransitionMatrices(n, k) ==
    IF k = 0 THEN {<<>>}
    ELSE {m \o r : m \in TransitionMatrices(n, k - 1),
                   r \in TransitionRows(n, k - 1)}

\* all mass on one end state, or split between the two end states
StartVectors(n) ==
    {[i \in 1 .. n |-> IF i = 1 THEN <<1, 1>> ELSE <<0, 1>>],
     [i \in 1 .. n |-> IF i \in {1, n} THEN <<1, 2>> ELSE <<0, 1>>]}

StopVectors(n) ==
    {[i \in 1 .. n |-> IF i = n THEN <<1, 1>> ELSE <<0, 1>>],
     [i \in 1 .. n |-> IF i \in {1, n} THEN <<1, 2>> ELSE <<0, 1>>]}

Automata(n) ==
    {[n_states |-> n, start |-> st, stop |-> sp, trans |-> tr, means |-> mu] :
        st \in StartVectors(n), sp \in StopVectors(n),
        tr \in TransitionMatrices(n, n), mu \in [1 .. n -> FrameValues]}

InitViterbi ==
    /\ hmm \in UNION {Automata(n) : n \in 1 .. MaxHmmStates}
    /\ signal \in SeqsUpTo(MaxObservations) \ {<<>>}
    /\ viterbi_out = [status |-> "none", value |-> <<0, 1>>]
    /\ AlignerIdle
    /\ WorkersIdle
    /\ ClusterIdle
    /\ MergingIdle
    /\ CandidatesIdle
    /\ PercentileIdle

Viterbi ==
    /\ viterbi_out.status = "none"
    /\ viterbi_out' = viterbi(hmm, signal)
    /\ UNCHANGED <<hmm, signal>>
    /\ UNCHANGED <<aligner_vars, worker_vars, cluster_vars, merging_vars>>
    /\ UNCHANGED <<candidate_vars, percentile_vars>>

NextViterbi == Viterbi

SpecViterbi == InitViterbi /\ [][NextViterbi]_vars

----------------------------------------------------------------------------
(* Claims about clustering and cluster_sets *)

ClusteringReturned == cluster_pc \in {"returned", "grouped"}

\* distance[a][b] as stored, for instances a and b
stored(dg, a, b) == dg.distances[a * dg.n_instances + b + 1]

Leaves(dg) == 0 .. dg.n_instances - 1

\* the leaves below a cluster id
Members(dg, root) == {i \in Leaves(dg) : cluster(dg, i) = root}

GroupSet(group) == {group[k] : k \in DOMAIN group}

TwoPairsInput ==
    /\ dendogram.n_instances = 4
    /\ dendogram.distances \in TwoPairsMatrices
    /\ perc = 50

\* C11: four sequences A, B, C, D with A-B and C-D near zero in both
\* directions and every cross pair large, clustered at the 50th percentile,
\* end as exactly two clusters, and cluster_sets returns {A, B} and {C, D}.
C11_TwoPairsGiveTwoClusters ==
    (TwoPairsInput /\ cluster_pc = "grouped") =>
        /\ Cardinality(clusters_out) = 2
        /\ {GroupSet(grouped[k]) : k \in DOMAIN grouped} = {{0, 1}, {2, 3}}

\* C12: no operation of the returned list has a linkage distance above the
\* percentile threshold.
C12_OperationsWithinThreshold ==
    ClusteringReturned =>
        \A k \in DOMAIN cluster_result :
            ~f32_lt(threshold, cluster_result[k].distance)

Asymmetric(dg) ==
    \E a, b \in Leaves(dg) : a # b /\ ~f32_eq(stored(dg, a, b), stored(dg, b, a))

\* C13: along the operation list, in creation order, the linkage distance
\* never decreases, whatever the distance matrix (symmetric or not).
C13_LinkageNonDecreasing ==
    \A k \in 1 .. Len(cluster_result) - 1 :
        ~f32_lt(cluster_result[k + 1].distance, cluster_result[k].distance)

C13_Witness ==
    /\ ClusteringReturned
    /\ Asymmetric(dendogram)
    /\ Len(cluster_result) >= 2
    /\ f32_lt(cluster_result[1].distance, cluster_result[2].distance)
    /\ cluster_result[2].distance[1] # INFINITY

\* the entries of a row-major n * n matrix off its diagonal, first k entries
RECURSIVE OffDiagonal(_, _, _)
OffDiagonal(ds, n, k) ==
    IF k = 0 THEN <<>>
    ELSE IF (k - 1) \div n = (k - 1) % n THEN OffDiagonal(ds, n, k - 1)
    ELSE Append(OffDiagonal(ds, n, k - 1), ds[k])

\* C14: the stopping threshold is the percentile of the off-diagonal entries
\* alone; the diagonal has no influence on it.
C14_ThresholdFromOffDiagonal ==
    (cluster_pc \in {"loop", "returned", "grouped"}
     /\ dendogram.n_instances >= 2) =>
        LET off == OffDiagonal(dendogram.distances, dendogram.n_instances,
                               Len(dendogram.distances))
            t == percentile(off, perc)
        IN  t.status = "ok" /\ f32_eq(threshold, t.value)

\* C15: clustering returns as many operations as there are leaves less the
\* cluster roots it returns.
C15_OperationCount ==
    ClusteringReturned =>
        Len(cluster_result) = dendogram.n_instances - Cardinality(clusters_out)

\* C16: in what cluster_sets returns every leaf is in exactly one group, and
\* a leaf that was never merged is a group of its own.
C16_EveryLeafInOneGroup ==
    cluster_pc = "grouped" =>
        \A leaf \in Leaves(dendogram) :
            /\ Cardinality({k \in DOMAIN grouped :
                               leaf \in GroupSet(grouped[k])}) = 1
            /\ leaf \in clusters_out =>
                   \E k \in DOMAIN grouped : grouped[k] = <<leaf>>

RECURSIVE SumStored(_, _)
SumStored(dg, pairs) ==
    IF pairs = {} THEN <<0, 1>>
    ELSE LET pr == CHOOSE c \in pairs : TRUE
         IN  f32_sum(stored(dg, pr[1], pr[2]), SumStored(dg, pairs \ {pr}))

\* the mean of the stored distance[a][b] over a in A and b in B
MeanStored(dg, A, B) ==
    f32_quot(SumStored(dg, A \X B), Cardinality(A) * Cardinality(B))

\* C17: at each step the linkage of an ordered pair of distinct roots (A, B)
\* is the mean of the stored distance[a][b], a in A and b in B, and the
\* merged pair is a pair of distinct roots whose linkage is the least.
C17_MergesMinimumMeanLinkage ==
    \A k \in DOMAIN cluster_result :
        LET dg == before_merge[k]
            op == cluster_result[k]
            roots == clusters(dg)
        IN  /\ op.merge_i \in roots /\ op.merge_j \in roots
            /\ op.merge_i # op.merge_j
            /\ \A a, b \in roots :
                   a # b =>
                       LET l == linkage(dg, assignment(dg), a, b)
                       IN  /\ f32_eq(l, MeanStored(dg, Members(dg, a),
                                                   Members(dg, b)))
                           /\ ~f32_lt(l, op.distance)
                           /\ (a = op.merge_i /\ b = op.merge_j) =>
                                  f32_eq(op.distance, l)

\* C18: clustering is deterministic: whenever the loop takes another turn,
\* the operation it appends is the same in every run.
C18_MergeIsDeterministic ==
    (cluster_pc = "loop" /\ dendogram.n_clusters > 1
     /\ f32_lt(loop_distance, threshold)) =>
        Cardinality({merge(dendogram, all_linkages(dendogram), ord).operation :
                        ord \in Orders(clusters(dendogram))}) = 1

----------------------------------------------------------------------------
(* Claims about ModelMerging *)

States(mm) == 0 .. Len(mm.merge_parent) - 1

IsRoot(mm, s) == mm.merge_parent[s + 1] = s

\* the states merged with s
Class(mm, s) == {t \in States(mm) : find_parent(mm, t) = find_parent(mm, s)}

\* C19: after any sequence of merges find_parent is idempotent, no state's
\* parent is above the state, and the root of a class is its smallest
\* member; a merge changes the parent of one root only, the larger of the
\* two roots merged, to the smaller one.
C19_UnionFindCanonical ==
    /\ [](\A s \in States(merger) :
             /\ find_parent(merger, find_parent(merger, s))
                    = find_parent(merger, s)
             /\ merger.merge_parent[s + 1] <= s
             /\ \A t \in Class(merger, s) : find_parent(merger, s) <= t)
    /\ [][merger'.merge_parent # merger.merge_parent =>
             \E i, j \in States(merger) :
                 /\ i < j /\ IsRoot(merger, i) /\ IsRoot(merger, j)
                 /\ merger'.merge_parent =
                        [merger.merge_parent EXCEPT ![j + 1] = i]]_vars

C19_Witness ==
    /\ op_index >= 2
    /\ \E s \in States(merger) :
           /\ merger.merge_parent[s + 1] # s
           /\ find_parent(merger, s) # merger.merge_parent[s + 1]

\* two f32 values with the same bits, up to the quotient's representation
SameValue(p, q) ==
    IF is_nan(p) \/ is_nan(q) THEN is_nan(p) /\ is_nan(q) ELSE f32_eq(p, q)

SameValues(s, t) ==
    Len(s) = Len(t) /\ \A k \in DOMAIN s : SameValue(s[k], t[k])

SameAutomaton(a, b) ==
    /\ a.n_states = b.n_states
    /\ SameValues(a.trans, b.trans)
    /\ SameValues(a.start, b.start)
    /\ SameValues(a.stop, b.stop)
    /\ SameValues(a.states, b.states)
    /\ a.is_segmental = b.is_segmental

\* the operations taken in the order ord of their positions
Reordered(ops, ord) == [k \in DOMAIN ops |-> ops[ord[k]]]

\* C20: for a fixed set of merge candidates, merge_all followed by shrink
\* gives the same compacted automaton in whatever order the candidates are
\* applied.
C20_MergeOrderIrrelevant ==
    merge_pc = "shrunk" =>
        \A ord \in Orders(DOMAIN operations) :
            SameAutomaton(
                compacted,
                shrink(merge_all(slices, Reordered(operations, ord),
                                 Len(operations)).merger))

\* row i (0-based) of the transition matrix of h
TransRow(h, i) == [j \in 1 .. h.n_states |-> h.trans[i * h.n_states + j]]

SumsToOne(s) == SameValue(f32_total(s, Len(s)), <<1, 1>>)

\* C21: the automaton returned by shrink has every row of its transition
\* matrix summing to 1, and its start and stop vectors each summing to 1,
\* also for a state without outgoing transition mass.
C21_RowsSumToOne ==
    merge_pc = "shrunk" =>
        /\ \A i \in 0 .. compacted.n_states - 1 :
               SumsToOne(TransRow(compacted, i))
        /\ SumsToOne(compacted.start)
        /\ SumsToOne(compacted.stop)

\* the k-th operation made merge_all join two different classes
Performed(sl, ops, k) ==
    LET st == merge_all(sl, ops, k - 1)
        state_i == find_parent(st.merger,
                               state_map(sl, ops[k].slice_i, ops[k].i))
        state_j == find_parent(st.merger,
                               state_map(sl, ops[k].slice_j, ops[k].j))
    IN  state_i # state_j /\ <<state_i, state_j>> \notin st.closed

\* the operations whose merge went into the class of root, in the final
\* union-find
MergesOfClass(sl, ops, mm, root) ==
    {k \in DOMAIN ops :
        /\ Performed(sl, ops, k)
        /\ find_parent(mm, state_map(sl, ops[k].slice_i, ops[k].i)) = root}

\* C22: a state of the compacted automaton has is_segmental = true if and
\* only if at least one of the merges that formed its class came from a
\* cross-sequence candidate (is_from_alignment = true).
C22_SegmentalIffAlignedMerge ==
    merge_pc = "shrunk" =>
        LET used == used_states(merger, Len(merger.merge_parent))
        IN  \A u \in DOMAIN used :
                compacted.is_segmental[u] <=>
                    \E k \in MergesOfClass(slices, operations, merger,
                                            used[u]) :
                        operations[k].is_from_alignment

\* the root of each of the first k states, in state order
RECURSIVE Roots(_, _)
Roots(mm, k) ==
    IF k = 0 THEN <<>> ELSE Append(Roots(mm, k - 1), find_parent(mm, k - 1))

\* the mass among the first k entries of the n * n matrix tr that goes from
\* a state with root a to a state with root b
RECURSIVE TransMass(_, _, _, _, _, _)
TransMass(tr, root, n, a, b, k) ==
    IF k = 0 THEN 0
    ELSE TransMass(tr, root, n, a, b, k - 1)
         + (IF root[(k - 1) \div n + 1] = a /\ root[((k - 1) % n) + 1] = b
            THEN tr[k] ELSE 0)

\* the mass among the first k entries of the vector s held by states with
\* root a
RECURSIVE ClassMass(_, _, _, _)
ClassMass(s, root, a, k) ==
    IF k = 0 THEN 0
    ELSE ClassMass(s, root, a, k - 1) + (IF root[k] = a THEN s[k] ELSE 0)

\* C28: shrink builds exactly one state per union-find class; before
\* normalisation the transition mass from class A to class B is the sum of
\* the chain transitions of from_slices from states of A to states of B,
\* plus one per merge performed inside the class when A = B, and the start
\* and stop mass of a class is the sum over its members.
C28_ShrinkSumsClassMasses ==
    merge_pc = "shrunk" =>
        LET n == Len(merger.merge_parent)
            root == Roots(merger, n)
            used == used_states(merger, n)
            built == shrink_states(merger)
            chain == from_slices(slices).hmm
            trans == SubSeq(chain.trans, 1, n * n)
            start == SubSeq(chain.start, 1, n)
            stop == SubSeq(chain.stop, 1, n)
            merged_into ==
                {<<k, root[state_map(slices, operations[k].slice_i,
                                     operations[k].i) + 1]>> :
                    k \in {l \in DOMAIN operations :
                              Performed(slices, operations, l)}}
        IN  /\ compacted = normalize_transitions(built)
            /\ built.n_states = Cardinality({root[s] : s \in 1 .. n})
            /\ \A u, v \in DOMAIN used : u # v => used[u] # used[v]
            /\ \A u, v \in DOMAIN used :
                   built.trans[(u - 1) * built.n_states + v] =
                       TransMass(trans, root, n, used[u], used[v], n * n)
                       + (IF u = v
                          THEN Cardinality({m \in merged_into :
                                               m[2] = used[u]})
                          ELSE 0)
            /\ \A u \in DOMAIN used :
                   /\ built.start[u] = ClassMass(start, root, used[u], n)
                   /\ built.stop[u] = ClassMass(stop, root, used[u], n)

\* two classes with a chain transition between them, one of them formed by
\* two merges
C28_Witness ==
    /\ merge_pc = "shrunk"
    /\ compacted.n_states >= 2
    /\ \E s \in States(merger) :
           /\ IsRoot(merger, s)
           /\ Cardinality(MergesOfClass(slices, operations, merger, s)) >= 2
    /\ \E k \in DOMAIN compacted.trans :
           /\ (k - 1) \div compacted.n_states # (k - 1) % compacted.n_states
           /\ ~is_nan(compacted.trans[k]) /\ compacted.trans[k][1] > 0

----------------------------------------------------------------------------
(* Claims about the dendogram *)

Children(op) == {op.merge_i, op.merge_j}

\* C29: every operation of AgglomerativeClustering::merge joins two distinct
\* ids that are both roots of current clusters at that moment, no id is a
\* child in more than one operation, and n_clusters is always the number of
\* distinct roots; also when every linkage between clusters is infinite.
C29_OperationsJoinDistinctRoots ==
    /\ \A k \in DOMAIN cluster_result :
           /\ cluster_result[k].merge_i # cluster_result[k].merge_j
           /\ Children(cluster_result[k]) \subseteq clusters(before_merge[k])
    /\ \A k, l \in DOMAIN cluster_result :
           k # l => Children(cluster_result[k])
                        \cap Children(cluster_result[l]) = {}
    /\ dendogram.n_clusters = Cardinality(clusters(dendogram))

----------------------------------------------------------------------------
(* Claims about percentile *)

\* the values of numbers_in that are not NaN, sorted
SortedFiltered ==
    LET filtered == SelectSeq(numbers_in, LAMBDA v : ~is_nan(v))
    IN  sort_by(filtered, Len(filtered))

\* floor(perc * count), count being the number of values that are not NaN
RankOfFiltered == (Len(SortedFiltered) * numbers_perc) \div 100

\* C26: percentile computes its result over the values left after the NaN
\* filter only: it returns the element at rank floor(perc * count) of the
\* sorted filtered values, count being the number of values left (stated
\* for the inputs on which that rank exists).
C26_PercentileOverFilteredValues ==
    (percentile_out.status # "none" /\ RankOfFiltered < Len(SortedFiltered))
        => percentile_out = [status |-> "ok",
                             value |-> SortedFiltered[RankOfFiltered + 1]]

\* C30: for every perc in [0, 1] and every input with at least one value
\* that is not NaN, percentile returns an element of the input and never
\* indexes past the end of the filtered, sorted list.
C30_PercentileReturnsElement ==
    (percentile_out.status # "none" /\ Len(SortedFiltered) > 0)
        => /\ percentile_out.status = "ok"
           /\ \E k \in DOMAIN numbers_in :
                  numbers_in[k] = percentile_out.value

----------------------------------------------------------------------------
(* Claims about merges_from_alignment *)

\* the raw local distances along the path
PathDistances == [t \in 1 .. Len(path_out.nodes) |-> <<path_out.nodes[t].score, 1>>]

PathSteps == 0 .. Len(path_out.nodes) - 1

NodeAt(t) == path_out.nodes[t + 1]

\* step t passes the bounds test of the loop over the path
InsideSlices(t) ==
    cur(NodeAt(t))[1] < Len(x) /\ cur(NodeAt(t))[2] < Len(y)

Emitted == {merges_out.ops[k] : k \in DOMAIN merges_out.ops}

\* C23: the smoothed distance compared with the merge threshold at path
\* step t is the raw local distance of step t when t < k, and for t >= k
\* the mean of the k raw local distances immediately preceding step t.
C23_SmoothedIsTrailingMean ==
    merges_out.status = "ok" =>
        \A t \in PathSteps :
            (InsideSlices(t) /\ NodeAt(t).label = "Match") =>
                SameValue(smoothed_distance(PathDistances, moving, t),
                          IF t < moving THEN PathDistances[t + 1]
                          ELSE mean(SubSeq(PathDistances, t - moving + 1, t)))

\* C24: a match node at table cell (i, j) whose smoothed distance is below
\* the threshold, the terminal cell (n, m) included, yields a cross-sequence
\* candidate, and the candidate names frame i - 1 of member x and frame
\* j - 1 of member y, the two frames the node's local distance was computed
\* between.
C24_CandidateNamesAlignedFrames ==
    merges_out.status = "ok" =>
        /\ \A t \in PathSteps :
               (/\ NodeAt(t).label = "Match"
                /\ f32_lt(smoothed_distance(PathDistances, moving, t),
                          merge_th))
               => \E op \in Emitted :
                      /\ op.is_from_alignment
                      /\ op.slice_i = 1 /\ op.i = cur(NodeAt(t))[1] - 1
                      /\ op.slice_j = 0 /\ op.j = cur(NodeAt(t))[2] - 1
        /\ \A op \in Emitted :
               op.is_from_alignment =>
                   \E t \in PathSteps :
                       /\ NodeAt(t).label = "Match"
                       /\ op.slice_i = 1 /\ op.i = cur(NodeAt(t))[1] - 1
                       /\ op.slice_j = 0 /\ op.j = cur(NodeAt(t))[2] - 1

\* the frames t >= 1 of a member whose distance to frame t - 1 is below the
\* member's percentile threshold
FramesBelowThreshold(s) ==
    {t \in 1 .. Len(s) - 1 :
        f32_lt(dist_to_previous(s)[t + 1],
               percentile(dist_to_previous(s), internal_perc).value)}

\* C25: for each member of the aligned pair and every frame t >= 1 of it
\* whose distance to frame t - 1 is below the member's percentile threshold,
\* a same-sequence candidate merging frame t with frame t - 1 is emitted,
\* tagged is_from_alignment = false, whatever shape the path has.
C25_EveryCloseFrameIsCandidate ==
    merges_out.status = "ok" =>
        /\ \A t \in FramesBelowThreshold(x) :
               \E op \in Emitted :
                   /\ ~op.is_from_alignment
                   /\ op.slice_i = 1 /\ op.slice_j = 1
                   /\ op.i = t /\ op.j = t - 1
        /\ \A t \in FramesBelowThreshold(y) :
               \E op \in Emitted :
                   /\ ~op.is_from_alignment
                   /\ op.slice_i = 0 /\ op.slice_j = 0
                   /\ op.i = t /\ op.j = t - 1

----------------------------------------------------------------------------
(* Claims about viterbi *)

\* the state paths of an observation sequence, states numbered from 1
StatePaths == [1 .. Len(signal) -> 1 .. hmm.n_states]

\* ln start + the ln transitions + the emission log-likelihoods + ln stop
\* along a state path, summed over its first k steps (ln stop at the last)
RECURSIVE PathScore(_, _)
PathScore(pi, k) ==
    LET emitted == ll(vec(signal, k - 1), hmm.means[pi[k]])
        entered ==
            IF k = 1 THEN ln(hmm.start[pi[1]])
            ELSE log_add(PathScore(pi, k - 1),
                         ln(hmm.trans[(pi[k - 1] - 1) * hmm.n_states + pi[k]]))
        left == IF k = Len(signal) THEN ln(hmm.stop[pi[k]]) ELSE <<0, 1>>
    IN  log_add(log_add(entered, emitted), left)

\* the scores of the state paths; a path through a NaN entry has none
PathScores ==
    {v[1] : v \in {w \in {PathScore(pi, Len(signal)) : pi \in StatePaths} :
                      ~is_nan(w)}}

BestPathScore ==
    IF PathScores = {} THEN NEG_INFINITY
    ELSE CHOOSE v \in PathScores : \A w \in PathScores : w <= v

\* C27: for an observation sequence of length T >= 1 viterbi returns the
\* maximum over all state paths of ln start + sum of ln transition + sum of
\* emission log-likelihoods + ln stop, divided by T; an entry of
\* probability zero contributes -infinity, so a path through it is chosen
\* only if every path has score -infinity.
C27_ViterbiIsBestPathScore ==
    viterbi_out.status = "ok" =>
        viterbi_out.value =
            IF BestPathScore = NEG_INFINITY THEN <<NEG_INFINITY, 1>>
            ELSE <<BestPathScore, Len(signal)>>

\* two states, two observations, paths of different finite scores and paths
\* through an entry of probability zero
C27_Witness ==
    /\ viterbi_out.status = "ok"
    /\ hmm.n_states >= 2 /\ Len(signal) >= 2
    /\ NEG_INFINITY \in PathScores
    /\ Cardinality(PathScores \ {NEG_INFINITY}) >= 2
    /\ viterbi_out.value[1] # NEG_INFINITY

====
